---- MODULE Spec2Model ----
(***************************************************************************)
(* Model of the shAIyar block-processing pipeline:                         *)
(*   main()                       src/src/main.py                          *)
(*   Config.validate              src/src/config.py                        *)
(*   LLMFactory / LLMInterface    src/src/llm_interface.py                 *)
(*   DocxReader                   src/src/docx_reader.py                   *)
(*   TextProcessor.clean_text     src/text_processor.py                    *)
(*   ShAIyarProcessor             src/src/shaiyar_processor.py             *)
(*                                                                         *)
(* Text is a sequence of one-character strings, so that whitespace         *)
(* handling (strip, re.sub) is computed and not assumed.                   *)
(***************************************************************************)
EXTENDS Integers, Sequences, FiniteSets, TLC

(* ------------------------------ bounds -------------------------------- *)
\* longest input document, in paragraphs
MaxParas == 5
\* largest configured max_retries explored
MaxRetriesBound == 2
\* longest block list handed to the block loop on its own
MaxUnitBlocks == 2
\* longest document handed to the extractor on its own
MaxExtractParas == 5
\* longest text handed to clean_text on its own
MaxTextLen == 5
\* longest document of a run started from an arbitrary Config object
MaxAnyParas == 2
\* most calls of append_to_docx on one output path
MaxAppends == 4
\* longest document of the runs checked for termination
MaxLiveParas == 3
\* longest list of content blocks handed to a batch writer
MaxWriteBlocks == 3

(* --------------------------- program constants ------------------------ *)
\* FileConfig.separator default "\n*********\n"
DefaultSeparator ==
    <<"\n", "*", "*", "*", "*", "*", "*", "*", "*", "*", "\n">>

\* providers_requiring_key in Config.validate
ProvidersRequiringKey == {"groq", "openai", "google"}

\* providers the factory knows
FactoryProviders == {"groq", "openai", "google", "ollama"}

(* ------------------------------ inputs -------------------------------- *)
\* paragraph texts a document is drawn from: a blank paragraph and a
\* paragraph of text with trailing whitespace
ParaTexts == {<< >>, <<"a", " ">>}

\* documents: sequences of at most MaxParas paragraphs
Docs == UNION {[1..n -> ParaTexts] : n \in 0..MaxParas}

\* contents the backend may return on a successful call (result.content)
Responses == {<< >>, <<"X">>, <<"Y">>}

\* effective provider strings: main() always assigns args.provider, which
\* argparse restricts to these choices (default "groq"); all are lower case,
\* so str.lower is the identity on them
Providers == {"groq", "openai", "google"}

\* effective api_key values: empty or present
ApiKeys == {<< >>, <<"k">>}

\* configured separators: empty string or the default
Separators == {<< >>, DefaultSeparator}

\* content of the system-message file
SystemMessageFile == <<" ", "S", "\n">>

\* content of the output path before the run
PreviousOutput == << <<"o">> >>

(* ------------------------- text helper functions ---------------------- *)
\* str.isspace for the characters of the model's alphabet
IsSpace(c) == c \in {" ", "\n", "\t"}

RECURSIVE LStrip(_)
LStrip(s) ==
    IF s = << >> THEN << >>
    ELSE IF IsSpace(Head(s)) THEN LStrip(Tail(s)) ELSE s

RECURSIVE RStrip(_)
RStrip(s) ==
    IF s = << >> THEN << >>
    ELSE IF IsSpace(s[Len(s)]) THEN RStrip(SubSeq(s, 1, Len(s) - 1)) ELSE s

\* str.strip()
Strip(s) == RStrip(LStrip(s))

\* re.sub(r'\s+', ' ', text): every maximal whitespace run becomes one space
RECURSIVE CollapseWs(_)
CollapseWs(s) ==
    IF s = << >> THEN << >>
    ELSE IF IsSpace(Head(s))
         THEN <<" ">> \o CollapseWs(LStrip(s))
         ELSE <<Head(s)>> \o CollapseWs(Tail(s))

\* variant: runs are collapsed but the ends are not trimmed
clean_text_NoStrip(text) == CollapseWs(text)

\* TextProcessor.clean_text
clean_text(text) ==
    IF text = << >> THEN << >> ELSE Strip(CollapseWs(text))

(* ----------------------------- extraction ----------------------------- *)
\* an element of the extracted sequence: a block or the None sentinel
Block(t) == [none |-> FALSE, text |-> t]
NoneBlock == [none |-> TRUE, text |-> << >>]

\* variant: only the empty string counts as a blank paragraph
IsBlankPara_EmptyOnly(text) == text = << >>

\* line 38: text.strip() == ""
IsBlankPara(text) == Strip(text) = << >>

\* variant: the paragraphs of a block are concatenated without a newline
Accumulate_NoNewline(buf, text) == buf \o text

\* line 43: text_block += text + "\n"
Accumulate(buf, text) == buf \o text \o <<"\n">>

\* variant: the buffer is yielded after the loop even when it is empty
FlushLast_Always(buf) == <<Block(Strip(buf))>>

\* variant: a buffer left after the last paragraph is dropped
FlushLast_Missing(buf) == << >>

\* lines 46-47: the buffer left after the loop is yielded, stripped
FlushLast(buf) == IF buf # << >> THEN <<Block(Strip(buf))>> ELSE << >>

\* variant: the exception is swallowed and nothing is yielded
OnReadError_Silent == << >>

\* lines 49-54: an exception ends the sequence with one None
OnReadError == <<NoneBlock>>

\* the loop of read_docx_text_blocks over paragraphs k..n with buffer buf;
\* n < Len(doc) means reading paragraph n+1 raised
RECURSIVE ReadLoop(_, _, _, _)
ReadLoop(doc, k, n, buf) ==
    IF k > n
    THEN IF n < Len(doc) THEN OnReadError ELSE FlushLast(buf)
    ELSE IF IsBlankPara(doc[k])
         THEN IF buf # << >>
              THEN <<Block(Strip(buf))>> \o ReadLoop(doc, k + 1, n, << >>)
              ELSE ReadLoop(doc, k + 1, n, buf)
         ELSE ReadLoop(doc, k + 1, n, Accumulate(buf, doc[k]))

\* DocxReader.read_docx_text_blocks, materialised as a list.
\* readable = number of paragraphs read before an exception; -1 when
\* docx.Document(file_path) itself raises; Len(doc) when nothing raises.
read_docx_text_blocks(doc, readable) ==
    IF readable < 0 THEN OnReadError ELSE ReadLoop(doc, 1, readable, << >>)

(* ------------------------- configuration checks ----------------------- *)
\* the provider strings with an upper-case letter that the model uses, each
\* with its lower-case form
LowerCase ==
    ("GROQ" :> "groq") @@ ("Groq" :> "groq") @@ ("OpenAI" :> "openai") @@
    ("GOOGLE" :> "google") @@ ("Ollama" :> "ollama") @@
    ("HuggingFace" :> "huggingface")

\* variant: the comparison is case sensitive
Lower_Identity(p) == p

\* str.lower() on a provider string
Lower(p) == IF p \in DOMAIN LowerCase THEN LowerCase[p] ELSE p

\* Config.validate: "ok" when it returns True, otherwise the exception raised
\* variant: the credential is not looked at
validate_FilesOnly(c) ==
    IF ~c.input_exists THEN "FileNotFoundError"
    ELSE IF ~c.sysmsg_exists THEN "FileNotFoundError"
    ELSE "ok"

validate(c) ==
    IF Lower(c.provider) \in ProvidersRequiringKey /\ c.api_key = << >>
    THEN "ValueError"
    ELSE IF ~c.input_exists THEN "FileNotFoundError"
    ELSE IF ~c.sysmsg_exists THEN "FileNotFoundError"
    ELSE "ok"

\* LLMFactory.create_llm_interface, lines 273-282: the class whose
\* constructor is called, or the ValueError raised for any other string
llm_class(provider) ==
    IF Lower(provider) = "groq" THEN "GroqInterface"
    ELSE IF Lower(provider) = "openai" THEN "OpenAIInterface"
    ELSE IF Lower(provider) = "google" THEN "GoogleInterface"
    ELSE IF Lower(provider) = "ollama" THEN "OllamaInterface"
    ELSE "ValueError"

\* LLMFactory.create_llm_interface: TRUE when a client class is selected,
\* FALSE when ValueError("Unsupported LLM provider") is raised
create_llm_interface(provider) ==
    Lower(provider) \in FactoryProviders /\ llm_class(provider) # "ValueError"

\* len(text.split()): the number of whitespace-separated words
WordCount(text) ==
    Cardinality({k \in DOMAIN text :
                    ~IsSpace(text[k]) /\ (k = 1 \/ IsSpace(text[k - 1]))})

\* len(text.split('\n')): one more than the number of newlines
SplitLineCount(text) ==
    Cardinality({k \in DOMAIN text : text[k] = "\n"}) + 1

\* TextProcessor.analyze_text_block; average_words_per_line, the quotient
\* of the two counts, is left to them
analyze_text_block(text_block) ==
    IF text_block = << >>
    THEN [word_count |-> 0, character_count |-> 0, line_count |-> 0,
          is_empty |-> TRUE]
    ELSE [word_count |-> WordCount(text_block),
          character_count |-> Len(text_block),
          line_count |-> SplitLineCount(text_block),
          is_empty |-> FALSE]

\* _load_system_message, lines 61-66: the stripped content of the file, or
\* the empty string when reading it raises
load_system_message(readable) ==
    IF readable THEN Strip(SystemMessageFile) ELSE << >>

\* variant: the user content comes first
create_messages_Swapped(system, user) ==
    <<[role |-> "human", content |-> user],
      [role |-> "system", content |-> system]>>

\* LLMInterface.create_messages, lines 59-62
create_messages(system, user) ==
    <<[role |-> "system", content |-> system],
      [role |-> "human", content |-> user]>>

(* --------------------------- retry primitives ------------------------- *)
\* variant: the counter is incremented before it is compared
CanRetry_IncrementFirst(rc, mr) == rc + 1 < mr

\* variant: a failed call is always retried
CanRetry_Always(rc, mr) == TRUE

\* variant: the comparison admits one retry more
CanRetry_Inclusive(rc, mr) == rc <= mr

\* handle_error, line 76: the guard that decides between retry and giving up
CanRetry(rc, mr) == rc < mr

\* variant: the delay is computed from the counter before the increment
Backoff_BeforeIncrement(rc) == 2 ^ (rc - 1)

\* handle_error, line 79: the backoff delay slept after the increment
Backoff(rc) == 2 ^ rc

\* variant: the counter is left as it is when the retries are exhausted
ResetOnExhaust_Keep(rc) == rc

\* handle_error, line 82: the counter after the retries are exhausted
ResetOnExhaust(rc) == 0

\* invoke, line 120: the counter after a successful backend call
ResetOnSuccess(rc) == 0

\* variant: the None check is missing
IsSentinel_Never(b) == FALSE

\* process(), line 134: "text_block is None"
IsSentinel(b) == b.none

\* variant: the save inside the loop is dropped (output written in a batch)
Save_Batched(stored, document) == stored

\* process(), line 150: output_doc.save(path) replaces the stored document
\* by the whole in-memory document
Save(stored, document) == document

\* variant: the handler swallows the exception and reports completion
ExceptReturn_True == "True"

\* process(), lines 162-164: the value returned when an exception is caught
ExceptReturn == "False"

\* variant: the two exit codes are exchanged
ExitCode_Swapped(success) == IF success = "True" THEN 1 ELSE 0

\* main(), lines 112-117: the exit code for the value process() returned
ExitCode(success) == IF success = "True" THEN 0 ELSE 1

\* variant: the empty-text test is missing
IsEmptyText_Never(t) == FALSE

\* _process_text_block, line 83: "if not cleaned_text"
IsEmptyText(t) == t = << >>

\* variant: the result is appended without being tested
Truthy_Always(b) == TRUE

\* variant: only None is falsy, the empty string is written
Truthy_NotNone(b) == ~b.none

\* Python truthiness of Optional[str] at "if processed_block:"
Truthy(b) == ~b.none /\ b.text # << >>

\* variant: the loop steps over the element that follows
NextIndex_SkipOne(idx) == idx + 2

\* process(), line 133: enumerate() moves to the next list element
NextIndex(idx) == idx + 1

\* variant: only transient errors are handed to the retry logic
Caught_TransientOnly(error) == error = "transient"

\* invoke, line 122: "except Exception as e" catches every error kind
Caught(error) == TRUE

\* variant: every list element is counted
CountBlocks_All(blocks) == Len(blocks)

\* process(), line 122: len([b for b in text_blocks if b is not None])
CountBlocks(blocks) ==
    Cardinality({k \in DOMAIN blocks : ~blocks[k].none})

\* variant: the run starts from the document stored at the output path
NewDocument_Load(stored) == stored

\* process(), line 127: Document() without a path is an empty document,
\* whatever is stored at the output path
NewDocument(stored) == << >>

\* variant: the first-block flag is not consulted
AppendParagraphs_NoFlag(first, sep, text) ==
    IF sep # << >> THEN <<sep, text>> ELSE <<text>>

\* the paragraphs added to output_doc for one processed block (lines 142-146)
AppendParagraphs(first, sep, text) ==
    IF ~first /\ sep # << >> THEN <<sep, text>> ELSE <<text>>

(* -------------------------------- state ------------------------------- *)
VARIABLES
    cfg,                    \* effective configuration after CLI overrides
    doc,                    \* paragraphs of the input document
    pc,                     \* position of the single thread of control
    retry_count,            \* LLMInterface.retry_count
    llm_interface,          \* class of processor.llm_interface, else "None"
    system_message,         \* processor.system_message
    text_blocks,            \* process(): list(read_docx_text_blocks(...))
    total_blocks,           \* process(): number of non-None blocks
    i,                      \* process(): 0-based loop index
    output_doc,             \* process(): in-memory document (paragraph texts)
    is_first_block_written, \* process(): flag, True until a block is written
    successful_blocks,      \* process(): counter
    cleaned_text,           \* _process_text_block(): cleaned block
    analysis,               \* statistics logged for the block, if any
    processed_block,        \* value returned by _process_text_block
    saved,                  \* paragraphs stored at the output path
    saveCount,              \* completed output_doc.save calls
    attempts,               \* backend calls made by the current invoke
    sleeps,                 \* backoff sleeps of the current invoke, in order
    invStatus,              \* "idle", "running", "returned" or "raised"
    backendValue,           \* content of the last successful backend call
    messages,               \* _process_text_block(): the list for invoke
    sent,                   \* argument of each backend call of this invoke
    history,                \* outcome recorded for each real block, in order
    pacing,                 \* inter-block sleeps performed
    result,                 \* return value of process()
    exitStatus,             \* sys.exit code, -1 while running
    upc,                    \* position of a function-level run, else "off"
    uin,                    \* arguments of the function under a unit run
    uout                    \* what the function under a unit run produced

pipeVars == <<cfg, doc, pc, retry_count, llm_interface, system_message,
              messages, sent, text_blocks,
              total_blocks, i,
              output_doc, is_first_block_written, successful_blocks,
              cleaned_text, analysis, processed_block, saved, saveCount,
              attempts,
              sleeps, invStatus, backendValue, history, pacing, result,
              exitStatus>>

unitVars == <<upc, uin, uout>>

vars == <<pipeVars, unitVars>>

procVars == <<text_blocks, total_blocks, i, output_doc,
              is_first_block_written, successful_blocks>>
blockVars == <<cleaned_text, analysis, processed_block>>
sinkVars == <<saved, saveCount>>
invokeVars == <<attempts, sleeps, invStatus, backendValue, messages, sent>>
clientVars == <<llm_interface, system_message>>

Configs ==
    [provider : Providers, api_key : ApiKeys,
     input_exists : BOOLEAN, sysmsg_exists : BOOLEAN,
     max_retries : 0..MaxRetriesBound, separator : Separators]

Outcome(idx, kind, text) == [index |-> idx, outcome |-> kind, text |-> text]

\* no function-level run is in progress
UnitOff == upc = "off" /\ uin = << >> /\ uout = << >>

\* the variables of the processor and its client as construction leaves them
PipelineFresh ==
    /\ retry_count = 0
    /\ text_blocks = << >>
    /\ total_blocks = 0
    /\ i = 0
    /\ output_doc = << >>
    /\ is_first_block_written = TRUE
    /\ successful_blocks = 0
    /\ cleaned_text = << >>
    /\ analysis = << >>
    /\ processed_block = NoneBlock
    /\ saved = PreviousOutput
    /\ saveCount = 0
    /\ attempts = 0
    /\ sleeps = << >>
    /\ invStatus = "idle"
    /\ backendValue = << >>
    /\ messages = << >>
    /\ sent = << >>
    /\ history = << >>
    /\ pacing = 0
    /\ result = "none"
    /\ exitStatus = -1

\* the pipeline's variables before main() has done anything
PipelineIdle ==
    /\ pc = "main"
    /\ llm_interface = "None"
    /\ system_message = << >>
    /\ PipelineFresh

\* a configuration for runs in which the pipeline does not take part
IdleConfig ==
    [provider |-> "groq", api_key |-> <<"k">>, input_exists |-> TRUE,
     sysmsg_exists |-> TRUE, max_retries |-> 0,
     separator |-> DefaultSeparator]

\* the pipeline is not running: a function is exercised on its own
PipelineOff ==
    /\ cfg = IdleConfig /\ doc = << >> /\ pc = "off"
    /\ llm_interface = "None"
    /\ system_message = << >>
    /\ PipelineFresh

Init ==
    /\ cfg \in Configs
    /\ doc \in Docs
    /\ PipelineIdle
    /\ UnitOff

(* ------------------------------- main() ------------------------------- *)
\* main.py 105-106 and 119-121: config.validate() raises, exit 1
MainValidateFail ==
    /\ pc = "main"
    /\ validate(cfg) # "ok"
    /\ pc' = "exited"
    /\ exitStatus' = 1
    /\ UNCHANGED <<unitVars, clientVars, cfg, doc,
                   retry_count, procVars, blockVars, sinkVars,
                   invokeVars, history, pacing, result>>

\* main.py 105-106: config.validate() passes
MainValidateOk ==
    /\ pc = "main"
    /\ validate(cfg) = "ok"
    /\ pc' = "construct"
    /\ UNCHANGED <<unitVars, clientVars, cfg, doc,
                   retry_count, procVars, blockVars, sinkVars,
                   invokeVars, history, pacing, result, exitStatus>>

\* ShAIyarProcessor.__init__: factory selects a client and initialize_model
\* succeeds; retry_count = 0 (LLMInterface.__init__)
ConstructOk ==
    /\ pc = "construct"
    /\ create_llm_interface(cfg.provider)
    /\ llm_interface' = llm_class(cfg.provider)
    /\ system_message' = load_system_message(cfg.sysmsg_exists)
    /\ retry_count' = 0
    /\ pc' = "process"
    /\ UNCHANGED <<unitVars, cfg, doc, procVars, blockVars, sinkVars,
                   invokeVars,
                   history, pacing, result, exitStatus>>

\* ShAIyarProcessor.__init__ raises (the factory rejects the provider, or
\* initialize_model raises); main.py 119-121 exits 1 without any retry
ConstructFail ==
    /\ pc = "construct"
    /\ pc' = "exited"
    /\ exitStatus' = 1
    /\ UNCHANGED <<unitVars, clientVars, cfg, doc,
                   retry_count, procVars, blockVars, sinkVars,
                   invokeVars, history, pacing, result>>

(* --------------------- ShAIyarProcessor.process() --------------------- *)
\* lines 114-131: validate, materialise the block list, count the real
\* blocks, create the empty document.  The read may raise before any
\* paragraph (readable = -1), at a paragraph, or not at all.
Extract ==
    /\ pc = "process"
    /\ validate(cfg) = "ok"
    /\ \E readable \in (-1)..Len(doc) :
          /\ text_blocks' = read_docx_text_blocks(doc, readable)
          /\ total_blocks' = CountBlocks(text_blocks')
    /\ output_doc' = NewDocument(saved)
    /\ is_first_block_written' = TRUE
    /\ successful_blocks' = 0
    /\ i' = 0
    /\ pc' = "loop"
    /\ UNCHANGED <<unitVars, clientVars, cfg, doc,
                   retry_count, blockVars, sinkVars, invokeVars,
                   history, pacing, result, exitStatus>>

\* line 133-135: the element is the None sentinel: continue
SkipSentinel ==
    /\ pc = "loop"
    /\ i < Len(text_blocks)
    /\ IsSentinel(text_blocks[i + 1])
    /\ i' = NextIndex(i)
    /\ UNCHANGED <<unitVars, clientVars, cfg, doc,
                   pc, retry_count, text_blocks, total_blocks,
                   output_doc, is_first_block_written, successful_blocks,
                   blockVars, sinkVars, invokeVars, history, pacing, result,
                   exitStatus>>

\* lines 137-139 and 79-85: a real block; clean it; an empty cleaned text
\* returns None (Skipped), otherwise the invoke starts
Normalize ==
    /\ pc = "loop"
    /\ i < Len(text_blocks)
    /\ ~IsSentinel(text_blocks[i + 1])
    /\ cleaned_text' = clean_text(text_blocks[i + 1].text)
    /\ IF IsEmptyText(cleaned_text')
       THEN /\ processed_block' = NoneBlock
            /\ analysis' = << >>
            /\ history' = Append(history, Outcome(i, "Skipped", << >>))
            /\ pc' = "check"
            /\ UNCHANGED invokeVars
       ELSE /\ pc' = "invoke"
            /\ attempts' = 0
            /\ sleeps' = << >>
            /\ invStatus' = "running"
            /\ analysis' = <<analyze_text_block(cleaned_text')>>
            /\ messages' = create_messages(system_message, cleaned_text')
            /\ sent' = << >>
            /\ UNCHANGED <<processed_block, backendValue, history>>
    /\ UNCHANGED <<unitVars, clientVars, cfg, doc,
                   retry_count, procVars, sinkVars, pacing, result,
                   exitStatus>>

\* invoke, lines 118-121: the backend call returns; retry_count reset;
\* result.content returned through _process_text_block (lines 98-101)
InvokeSuccess ==
    /\ pc = "invoke"
    /\ \E c \in Responses :
          /\ backendValue' = c
          /\ processed_block' = Block(c)
    /\ attempts' = attempts + 1
    /\ sent' = Append(sent, messages)
    /\ retry_count' = ResetOnSuccess(retry_count)
    /\ invStatus' = "returned"
    /\ pc' = "check"
    /\ UNCHANGED <<unitVars, clientVars, cfg, doc,
                   procVars, cleaned_text, analysis, sinkVars, sleeps,
                   messages, history, pacing, result, exitStatus>>

\* invoke, lines 122-126 with handle_error: the backend call raises
InvokeFail ==
    /\ pc = "invoke"
    /\ attempts' = attempts + 1
    /\ sent' = Append(sent, messages)
    /\ IF CanRetry(retry_count, cfg.max_retries)
       THEN \* lines 77-80: increment, sleep, return None; invoke re-invokes
            /\ retry_count' = retry_count + 1
            /\ sleeps' = Append(sleeps, Backoff(retry_count'))
            /\ UNCHANGED <<pc, invStatus, processed_block, history>>
       ELSE \* lines 82-83 and 125: reset, raise; lines 103-105 return None
            /\ retry_count' = ResetOnExhaust(retry_count)
            /\ invStatus' = "raised"
            /\ processed_block' = NoneBlock
            /\ history' = Append(history, Outcome(i, "Failed", << >>))
            /\ pc' = "check"
            /\ UNCHANGED sleeps
    /\ UNCHANGED <<unitVars, clientVars, cfg, doc,
                   procVars, cleaned_text, analysis, sinkVars, backendValue,
                   messages, pacing, result, exitStatus>>

\* lines 140-147: the processed block is truthy: separator (unless first or
\* empty separator) and block are added to the in-memory document
AppendBlock ==
    /\ pc = "check"
    /\ Truthy(processed_block)
    /\ output_doc' = output_doc \o
          AppendParagraphs(is_first_block_written, cfg.separator,
                           processed_block.text)
    /\ is_first_block_written' = FALSE
    /\ pc' = "save"
    /\ UNCHANGED <<unitVars, clientVars, cfg, doc,
                   retry_count, text_blocks, total_blocks, i,
                   successful_blocks, blockVars, sinkVars, invokeVars,
                   history, pacing, result, exitStatus>>

\* line 140: None or empty content: nothing is written for this block
NoAppend ==
    /\ pc = "check"
    /\ ~Truthy(processed_block)
    /\ history' = IF processed_block.none THEN history
                  ELSE Append(history, Outcome(i, "Empty", << >>))
    /\ pc' = "delay"
    /\ UNCHANGED <<unitVars, clientVars, cfg, doc,
                   retry_count, procVars, blockVars, sinkVars,
                   invokeVars, pacing, result, exitStatus>>

\* lines 150-153: the save completes and the block is counted
SaveOk ==
    /\ pc = "save"
    /\ saved' = Save(saved, output_doc)
    /\ saveCount' = saveCount + 1
    /\ successful_blocks' = successful_blocks + 1
    /\ history' = Append(history, Outcome(i, "Success", processed_block.text))
    /\ pc' = "delay"
    /\ UNCHANGED <<unitVars, clientVars, cfg, doc,
                   retry_count, text_blocks, total_blocks, i,
                   output_doc, is_first_block_written, blockVars, invokeVars,
                   pacing, result, exitStatus>>

\* line 150 raises: caught at lines 162-164, process() returns False
SaveFail ==
    /\ pc = "save"
    /\ history' = Append(history, Outcome(i, "SaveFailed", << >>))
    /\ result' = ExceptReturn
    /\ pc' = "returned"
    /\ UNCHANGED <<unitVars, clientVars, cfg, doc,
                   retry_count, procVars, blockVars, sinkVars,
                   invokeVars, pacing, exitStatus>>

\* lines 155-157: pacing sleep unless this is the last list element; the
\* block is over, so the bookkeeping of its invoke is cleared
Delay ==
    /\ pc = "delay"
    /\ pacing' = IF i < Len(text_blocks) - 1 THEN pacing + 1 ELSE pacing
    /\ i' = NextIndex(i)
    /\ pc' = "loop"
    /\ attempts' = 0
    /\ sleeps' = << >>
    /\ invStatus' = "idle"
    /\ backendValue' = << >>
    /\ messages' = << >>
    /\ sent' = << >>
    /\ UNCHANGED <<unitVars, clientVars, cfg, doc,
                   retry_count, text_blocks, total_blocks,
                   output_doc, is_first_block_written, successful_blocks,
                   blockVars, sinkVars, history, result, exitStatus>>

\* lines 159-160: the loop is exhausted, process() returns True
LoopExit ==
    /\ pc = "loop"
    /\ i >= Len(text_blocks)
    /\ result' = "True"
    /\ pc' = "returned"
    /\ UNCHANGED <<unitVars, clientVars, cfg, doc,
                   retry_count, procVars, blockVars, sinkVars,
                   invokeVars, history, pacing, exitStatus>>

\* main.py 110-117: exit 0 when process() returned True, else 1
Exit ==
    /\ pc = "returned"
    /\ exitStatus' = ExitCode(result)
    /\ pc' = "exited"
    /\ UNCHANGED <<unitVars, clientVars, cfg, doc,
                   retry_count, procVars, blockVars, sinkVars,
                   invokeVars, history, pacing, result>>

Next ==
    \/ MainValidateFail
    \/ MainValidateOk
    \/ ConstructOk
    \/ ConstructFail
    \/ Extract
    \/ SkipSentinel
    \/ Normalize
    \/ InvokeSuccess
    \/ InvokeFail
    \/ AppendBlock
    \/ NoAppend
    \/ SaveOk
    \/ SaveFail
    \/ Delay
    \/ LoopExit
    \/ Exit

Spec == Init /\ [][Next]_vars

(* ===================== properties of the retry loop =================== *)
RECURSIVE SumSeq(_)
SumSeq(q) == IF q = << >> THEN 0 ELSE Head(q) + SumSeq(Tail(q))

\* 2^1 + 2^2 + ... + 2^k
RECURSIVE PowSum(_)
PowSum(k) == IF k <= 0 THEN 0 ELSE 2 ^ k + PowSum(k - 1)

\* a step of invoke in which the backend call raised
BackendFailed ==
    pc = "invoke" /\ attempts' = attempts + 1 /\ invStatus' # "returned"

\* C1 as stated: for max_retries >= 1, an invoke whose backend calls all
\* fail raises the terminal failure after exactly max_retries backend
\* attempts, with the retry counter 0 afterwards.
C1_TerminalAfterMaxRetriesAttempts ==
    (invStatus = "raised" /\ cfg.max_retries >= 1)
        => (attempts = cfg.max_retries /\ retry_count = 0)

\* C1 amended: for max_retries >= 1, an invoke whose backend calls all fail
\* raises the terminal failure after exactly max_retries + 1 backend attempts
\* (the first call and max_retries retries); the retry counter is 0
\* afterwards, and while the invoke is running after only failures it has
\* made at most max_retries attempts.
C1_TerminalAfterMaxRetriesPlusOne ==
    cfg.max_retries >= 1 =>
        /\ invStatus = "raised" =>
              /\ attempts = cfg.max_retries + 1
              /\ retry_count = 0
              /\ processed_block.none
        /\ invStatus = "running" =>
              /\ attempts <= cfg.max_retries
              /\ attempts = retry_count

\* an always-failing backend with max_retries = 2 has raised after 3 calls
C1_Witness ==
    invStatus = "raised" /\ cfg.max_retries = 2 /\ attempts = 3

\* C2: an invoke whose backend fails k < max_retries times and then succeeds
\* returns the backend's value, leaves the retry counter at 0, and has slept
\* 2^1 + ... + 2^k seconds in k backoff sleeps.
C2_FailKThenSucceed ==
    (invStatus = "returned" /\ attempts - 1 < cfg.max_retries) =>
        /\ processed_block = Block(backendValue)
        /\ retry_count = 0
        /\ Len(sleeps) = attempts - 1
        /\ SumSeq(sleeps) = PowSum(attempts - 1)

\* one failure, then success, with max_retries = 2: one sleep of 2 seconds
C2_Witness ==
    /\ invStatus = "returned"
    /\ cfg.max_retries = 2
    /\ attempts = 2
    /\ sleeps = <<2>>

\* C3 as stated: on a backend failure the counter is incremented first; the
\* client sleeps 2^counter and retries if the incremented counter is below
\* max_retries, and otherwise resets the counter and raises without sleeping.
C3_IncrementThenCompare ==
    [][BackendFailed =>
          IF retry_count + 1 < cfg.max_retries
          THEN /\ retry_count' = retry_count + 1
               /\ sleeps' = Append(sleeps, 2 ^ (retry_count + 1))
               /\ invStatus' = "running"
          ELSE /\ retry_count' = 0
               /\ sleeps' = sleeps
               /\ invStatus' = "raised"]_vars

\* C3 amended: on a backend failure the counter is compared first; if it is
\* below max_retries it is incremented and the client sleeps 2^counter (the
\* incremented value) and retries; if it already equals max_retries it is
\* reset to 0 and the failure is raised with no sleep and no further attempt.
\* Hence no backoff sleep of an invoke is longer than 2^max_retries seconds.
C3_CompareThenIncrement ==
    [][/\ BackendFailed =>
             IF retry_count < cfg.max_retries
             THEN /\ retry_count' = retry_count + 1
                  /\ sleeps' = Append(sleeps, 2 ^ (retry_count + 1))
                  /\ invStatus' = "running"
                  /\ pc' = "invoke"
             ELSE /\ retry_count = cfg.max_retries
                  /\ retry_count' = 0
                  /\ sleeps' = sleeps
                  /\ invStatus' = "raised"
                  /\ pc' # "invoke"
       /\ \A k \in 1..Len(sleeps') : sleeps'[k] <= 2 ^ cfg.max_retries]_vars

\* with max_retries = 2 the invoke slept 2 and 4 seconds and then raised
C3_Witness ==
    invStatus = "raised" /\ cfg.max_retries = 2 /\ sleeps = <<2, 4>>

\* C4: the retry counter stays in 0..max_retries and is 0 whenever no invoke
\* is executing; every invoke starts with the counter at 0, so its first
\* backoff sleep is 2 seconds; an exhausted invoke ends in a raised failure
\* (no value reaches the pipeline), a returned one in a value.
C4_RetryCounterInvariant ==
    /\ retry_count \in 0..cfg.max_retries
    /\ invStatus # "running" => retry_count = 0
    /\ (invStatus = "running" /\ attempts = 0) => retry_count = 0
    /\ invStatus = "running" => retry_count = attempts
    /\ sleeps # << >> => sleeps[1] = 2
    /\ invStatus = "raised" =>
          /\ processed_block.none
          /\ history # << >>
          /\ history[Len(history)].outcome = "Failed"
    /\ invStatus = "returned" => ~processed_block.none

\* the second block's invoke is retrying after the first block's invoke was
\* exhausted
C4_Witness ==
    /\ invStatus = "running"
    /\ sleeps = <<2>>
    /\ Len(history) = 1
    /\ history[1].outcome = "Failed"
    /\ cfg.max_retries >= 1

(* ======================= properties of process() ====================== *)
IsPrefix(p, q) == Len(p) <= Len(q) /\ SubSeq(q, 1, Len(p)) = p

\* the outcomes of the given kind recorded so far
OutcomesOf(kind) == {k \in DOMAIN history : history[k].outcome = kind}

\* the result texts of the blocks recorded as successful, in recorded order
RECURSIVE SuccessTexts(_)
SuccessTexts(h) ==
    IF h = << >> THEN << >>
    ELSE IF Head(h).outcome = "Success"
         THEN <<Head(h).text>> \o SuccessTexts(Tail(h))
         ELSE SuccessTexts(Tail(h))

\* what this run has made durable: nothing before its first completed save
Durable == IF saveCount = 0 THEN << >> ELSE saved

\* the extracted sequence holds the extraction-failed sentinel
HasSentinel == \E k \in DOMAIN text_blocks : text_blocks[k].none

\* positions of process() between two blocks or after a normal return
BetweenBlocks ==
    \/ pc \in {"loop", "delay"}
    \/ pc \in {"returned", "exited"} /\ result = "True"

\* C5: the output is saved after every single append: the number of
\* completed saves equals the number of successful blocks, before the next
\* block starts everything appended is saved, and at any point the stored
\* output is the document as of the last completed save, a prefix of the
\* in-memory document that lacks at most the in-flight block (with its
\* separator).
C5_SavedAfterEveryAppend ==
    /\ saveCount = successful_blocks
    /\ saveCount = Cardinality(OutcomesOf("Success"))
    /\ saveCount = 0 => saved = PreviousOutput
    /\ IsPrefix(Durable, output_doc)
    /\ Len(output_doc) - Len(Durable) <= 2
    /\ pc \in {"loop", "invoke", "check", "delay"} => Durable = output_doc
    /\ Durable # output_doc =>
          /\ output_doc[Len(output_doc)] = processed_block.text
          /\ OutcomesOf("SaveFailed") = {} => pc = "save"

\* the second block is appended in memory but not saved yet: the stored
\* output is the first block alone
C5_Witness ==
    /\ pc = "save"
    /\ saveCount = 1
    /\ Len(saved) = 1
    /\ Len(output_doc) = 3

\* r1, sep, r2, sep, ..., rn: one separator paragraph before every result
\* but the first, whatever the separator is
RECURSIVE JoinAlways(_, _)
JoinAlways(rs, sep) ==
    IF Len(rs) <= 1 THEN rs
    ELSE <<Head(rs), sep>> \o JoinAlways(Tail(rs), sep)

\* the same, with no separator paragraph when the separator is empty
JoinConfigured(rs, sep) == IF sep = << >> THEN rs ELSE JoinAlways(rs, sep)

\* C6 as stated: the output is the successful results in input order with
\* exactly one separator paragraph before every result except the first.
C6_OneSeparatorBeforeEveryLaterResult ==
    BetweenBlocks =>
        output_doc = JoinAlways(SuccessTexts(history), cfg.separator)

\* C6 amended: the output is the successful results in input order, each its
\* own paragraph; when the configured separator is non-empty there is
\* exactly one separator paragraph before every result except the first one
\* written (never first, never last, never two adjacent, also when the first
\* input block fails); when the separator is empty no separator paragraph is
\* written at all.
C6_SeparatorsBetweenResults ==
    /\ BetweenBlocks =>
          output_doc = JoinConfigured(SuccessTexts(history), cfg.separator)
    /\ saveCount > 0 =>
          saved = JoinConfigured(SuccessTexts(history), cfg.separator)
    /\ \A k \in 1..Len(history) - 1 : history[k].index < history[k + 1].index
    /\ output_doc # << >> =>
          /\ output_doc[1] # cfg.separator
          /\ output_doc[Len(output_doc)] # cfg.separator
    /\ \A k \in 1..Len(output_doc) - 1 :
          ~(output_doc[k] = cfg.separator /\ output_doc[k + 1] = cfg.separator)

\* the first block failed and the next two succeeded: result, separator,
\* result
C6_Witness ==
    /\ pc = "returned"
    /\ result = "True"
    /\ Len(history) = 3
    /\ history[1].outcome = "Failed"
    /\ cfg.separator = DefaultSeparator
    /\ output_doc = <<<<"X">>, DefaultSeparator, <<"Y">>>>

C8_SaveFailureDoesNotAbort ==
    (pc = "returned" /\ OutcomesOf("SaveFailed") # {}) =>
        /\ result = "True"
        /\ Len(history) = total_blocks

\* C8 amended: a failing save for block i aborts the run: the exception is
\* caught by process(), which returns False (exit status 1); block i is not
\* counted as successful, no block after i is processed, and the stored
\* output stays as the last completed save left it.
C8_SaveFailureAbortsRun ==
    OutcomesOf("SaveFailed") # {} =>
        /\ history[Len(history)] = Outcome(i, "SaveFailed", << >>)
        /\ Cardinality(OutcomesOf("SaveFailed")) = 1
        /\ pc \in {"returned", "exited"}
        /\ result = "False"
        /\ exitStatus \in {-1, 1}
        /\ pc = "exited" => exitStatus = 1
        /\ successful_blocks = Cardinality(OutcomesOf("Success"))
        /\ successful_blocks = saveCount
        /\ Durable # output_doc
        /\ IsPrefix(Durable, output_doc)

\* the save of the first of two blocks failed and the process exited 1
\* without touching the second block
C8_Witness ==
    /\ pc = "exited"
    /\ exitStatus = 1
    /\ total_blocks = 2
    /\ Len(history) = 1
    /\ history[1].outcome = "SaveFailed"

\* C9 as stated: an extraction read failure makes the process exit non-zero;
\* exit status 0 only without a fatal configuration or extraction error.
C9_ReadFailureExitsNonZero ==
    (pc = "exited" /\ exitStatus = 0) =>
        (~HasSentinel /\ validate(cfg) = "ok")

\* C9 amended: an extraction read failure does not change the exit status:
\* the sentinel is skipped, process() returns True and the process exits 0
\* unless a save raises; exit status 0 is produced exactly when process()
\* returned True, which needs a valid configuration, a constructed client
\* and no failing save.
C9_ExitStatusFollowsProcessResult ==
    pc = "exited" =>
        /\ exitStatus \in {0, 1}
        /\ exitStatus = 0 <=> result = "True"
        /\ exitStatus = 0 =>
              /\ validate(cfg) = "ok"
              /\ create_llm_interface(cfg.provider)
              /\ OutcomesOf("SaveFailed") = {}
              /\ i = Len(text_blocks)
        /\ (HasSentinel /\ OutcomesOf("SaveFailed") = {}) => exitStatus = 0

\* the extraction failed at the open and the process exited 0
C9_Witness ==
    /\ pc = "exited"
    /\ text_blocks = <<NoneBlock>>
    /\ exitStatus = 0

\* C10 as stated: with the sentinel in the extracted sequence the run has
\* zero processable blocks: no invoke, no append, no save, and it completes
\* without raising.
C10_SentinelMeansNoProcessing ==
    HasSentinel =>
        /\ history = << >>
        /\ invStatus = "idle"
        /\ output_doc = << >>
        /\ saveCount = 0
        /\ pc = "returned" => result = "True"

\* C10 amended: the sentinel itself is skipped: it is not counted in the
\* total and causes no invoke, append or save; blocks yielded before the
\* sentinel are processed like any others; when the sequence is the sentinel
\* alone no invoke, append or save happens; in both cases the run completes
\* without raising (process() returns True) unless a save raises.
C10_SentinelIsSkipped ==
    /\ total_blocks =
          Cardinality({k \in DOMAIN text_blocks : ~text_blocks[k].none})
    /\ \A k \in DOMAIN history :
          /\ history[k].index + 1 \in DOMAIN text_blocks
          /\ ~text_blocks[history[k].index + 1].none
    /\ (pc \in {"invoke", "check", "save"}) => ~text_blocks[i + 1].none
    /\ text_blocks = <<NoneBlock>> =>
          /\ total_blocks = 0
          /\ history = << >>
          /\ invStatus = "idle"
          /\ output_doc = << >>
          /\ saveCount = 0
          /\ saved = PreviousOutput
          /\ pc \in {"loop", "returned", "exited"}
    /\ (HasSentinel /\ pc = "returned" /\ OutcomesOf("SaveFailed") = {}) =>
          result = "True"

\* a block was yielded before the read failed: it was processed and saved,
\* the sentinel was skipped, and process() returned True
C10_Witness ==
    /\ pc = "returned"
    /\ result = "True"
    /\ Len(text_blocks) = 2
    /\ text_blocks[2].none
    /\ total_blocks = 1
    /\ saveCount = 1
    /\ i = 2

(* ============================ pacing sleeps =========================== *)
\* C11: a completed run over N >= 1 real blocks has performed exactly N - 1
\* pacing sleeps: one after every real block but the last, and none after
\* the last real block, also when the sentinel follows it.
C11_PacingSleepsAreNMinusOne ==
    (pc = "returned" /\ result = "True" /\ total_blocks >= 1)
        => pacing = total_blocks - 1

(* ================= the block loop on arbitrary block lists ============ *)
\* texts _process_text_block may be handed: empty, whitespace only, text
BlockTexts == {<< >>, <<" ", "\n">>, <<"a">>}

\* block lists of at most MaxUnitBlocks elements, the sentinel included
BlockLists ==
    UNION {[1..n -> {Block(t) : t \in BlockTexts} \cup {NoneBlock}] :
              n \in 0..MaxUnitBlocks}

\* process() at line 133, for any list of blocks and any valid configuration
InitBlocks ==
    /\ cfg \in {c \in Configs : validate(c) = "ok"}
    /\ doc = << >>
    /\ text_blocks \in BlockLists
    /\ total_blocks = CountBlocks(text_blocks)
    /\ pc = "loop"
    /\ retry_count = 0
    /\ llm_interface = llm_class(cfg.provider)
    /\ system_message \in {load_system_message(r) : r \in BOOLEAN}
    /\ i = 0
    /\ output_doc = << >>
    /\ is_first_block_written = TRUE
    /\ successful_blocks = 0
    /\ cleaned_text = << >>
    /\ analysis = << >>
    /\ processed_block = NoneBlock
    /\ saved = PreviousOutput
    /\ saveCount = 0
    /\ attempts = 0
    /\ sleeps = << >>
    /\ invStatus = "idle"
    /\ backendValue = << >>
    /\ messages = << >>
    /\ sent = << >>
    /\ history = << >>
    /\ pacing = 0
    /\ result = "none"
    /\ exitStatus = -1
    /\ UnitOff

NextBlocks ==
    \/ SkipSentinel
    \/ Normalize
    \/ InvokeSuccess
    \/ InvokeFail
    \/ AppendBlock
    \/ NoAppend
    \/ SaveOk
    \/ SaveFail
    \/ Delay
    \/ LoopExit

SpecBlocks == InitBlocks /\ [][NextBlocks]_vars

\* every character of the text is whitespace (the empty text included)
AllSpace(t) == \A k \in DOMAIN t : t[k] \in {" ", "\n", "\t"}

\* C12: the backend is never called with empty user text: a block whose
\* cleaned text is empty is recorded as Skipped without any backend call,
\* adds no paragraph, is not counted, and the loop goes on to the next block.
C12_EmptyCleanedTextIsSkipped ==
    /\ pc = "invoke" =>
          /\ cleaned_text # << >>
          /\ cleaned_text = clean_text(text_blocks[i + 1].text)
    /\ attempts > 0 => cleaned_text # << >>
    /\ \A k \in DOMAIN history :
          history[k].outcome = "Skipped"
             <=> AllSpace(text_blocks[history[k].index + 1].text)
    /\ (history # << >> /\ pc \in {"check", "delay"}
        /\ history[Len(history)] = Outcome(i, "Skipped", << >>)) =>
          /\ invStatus = "idle"
          /\ attempts = 0
          /\ processed_block.none
          /\ output_doc = Durable
    /\ successful_blocks = Cardinality(OutcomesOf("Success"))
    /\ pc \in {"loop", "delay"} =>
          Len(output_doc) =
             IF cfg.separator = << >> \/ successful_blocks = 0
             THEN successful_blocks ELSE 2 * successful_blocks - 1
    /\ (pc = "returned" /\ OutcomesOf("SaveFailed") = {}) =>
          /\ result = "True"
          /\ Len(history) = total_blocks

\* a whitespace-only block was skipped and the block after it succeeded
C12_Witness ==
    /\ pc = "returned"
    /\ result = "True"
    /\ Len(history) = 2
    /\ history[1].outcome = "Skipped"
    /\ history[2].outcome = "Success"
    /\ successful_blocks = 1
    /\ Len(output_doc) = 1

(* ===================== the extractor on its own ======================= *)
\* paragraph texts: empty, whitespace only, text, text within whitespace
ExtractParas == {<< >>, <<" ">>, <<"a">>, <<" ", "b", " ">>}

ExtractDocs == UNION {[1..n -> ExtractParas] : n \in 0..MaxExtractParas}

InitExtract ==
    /\ PipelineOff
    /\ upc = "call"
    /\ uin \in ExtractDocs
    /\ uout = << >>

\* list(read_docx_text_blocks(path)) for a document whose read succeeds or
\* raises at the open (-1) or at paragraph readable + 1
ReadBlocks ==
    /\ upc = "call"
    /\ \E readable \in (-1)..Len(uin) :
          uout' = [blocks |-> read_docx_text_blocks(uin, readable),
                   readable |-> readable]
    /\ upc' = "done"
    /\ UNCHANGED <<pipeVars, uin>>

NextExtract == ReadBlocks

SpecExtract == InitExtract /\ [][NextExtract]_vars

\* the read of the document ended without an exception
ReadSucceeded == upc = "done" /\ uout.readable = Len(uin)

\* text between its first and its last non-whitespace character
Trimmed(t) ==
    IF AllSpace(t) THEN << >>
    ELSE LET ns == {k \in DOMAIN t : t[k] \notin {" ", "\n", "\t"}}
             lo == CHOOSE k \in ns : \A m \in ns : k <= m
             hi == CHOOSE k \in ns : \A m \in ns : k >= m
         IN  SubSeq(t, lo, hi)

\* the paragraphs at which a maximal run of non-blank paragraphs starts
RunStarts(d) ==
    {a \in DOMAIN d : ~AllSpace(d[a]) /\ (a = 1 \/ AllSpace(d[a - 1]))}

\* the last paragraph of the run that starts at a
RunEnd(d, a) ==
    CHOOSE b \in a..Len(d) :
        /\ \A k \in a..b : ~AllSpace(d[k])
        /\ b = Len(d) \/ AllSpace(d[b + 1])

\* paragraphs a..b joined by newlines
RECURSIVE JoinNl(_, _, _)
JoinNl(d, a, b) ==
    IF a >= b THEN d[a] ELSE d[a] \o <<"\n">> \o JoinNl(d, a + 1, b)

\* the start of the k-th run
NthStart(d, k) ==
    CHOOSE a \in RunStarts(d) :
        Cardinality({x \in RunStarts(d) : x <= a}) = k

\* C13: a successful extraction yields exactly one block per maximal run of
\* non-blank paragraphs, in document order, each the run's paragraph texts
\* joined by newlines and trimmed; a run that reaches the end of the
\* document is yielded as the last block.
C13_OneBlockPerRun ==
    ReadSucceeded =>
        /\ Len(uout.blocks) = Cardinality(RunStarts(uin))
        /\ \A k \in 1..Len(uout.blocks) :
              uout.blocks[k] =
                 Block(Trimmed(JoinNl(uin, NthStart(uin, k),
                                      RunEnd(uin, NthStart(uin, k)))))

\* a run of two paragraphs, a blank paragraph, and a last run that is still
\* in the buffer when the document ends
C13_Witness ==
    /\ ReadSucceeded
    /\ uin = <<<<"a">>, <<" ", "b", " ">>, << >>, <<"a">>>>
    /\ uout.blocks = <<Block(<<"a", "\n", " ", "b">>), Block(<<"a">>)>>

\* C14: extraction never yields an empty block: every yielded block is a
\* non-empty text without leading or trailing whitespace; blank paragraphs
\* (empty or whitespace only), leading, trailing or consecutive, yield
\* nothing, so there are never more blocks than non-blank paragraphs, and a
\* document of blank paragraphs only (or of none) yields zero blocks.
C14_NoEmptyBlock ==
    upc = "done" =>
        /\ \A k \in DOMAIN uout.blocks :
              ~uout.blocks[k].none =>
                 LET t == uout.blocks[k].text
                 IN  /\ t # << >>
                     /\ t[1] \notin {" ", "\n", "\t"}
                     /\ t[Len(t)] \notin {" ", "\n", "\t"}
        /\ Cardinality({k \in DOMAIN uout.blocks : ~uout.blocks[k].none})
              <= Cardinality({k \in DOMAIN uin : ~AllSpace(uin[k])})
        /\ (\A k \in DOMAIN uin : AllSpace(uin[k])) =>
              \A k \in DOMAIN uout.blocks : uout.blocks[k].none
        /\ (ReadSucceeded /\ \A k \in DOMAIN uin : AllSpace(uin[k])) =>
              uout.blocks = << >>

\* a leading blank, two consecutive blanks of both kinds and a trailing
\* blank around one paragraph of text give one block
C14_Witness ==
    /\ ReadSucceeded
    /\ uin = <<<<" ">>, <<"a">>, << >>, <<" ">>, << >>>>
    /\ uout.blocks = <<Block(<<"a">>)>>

\* C15: a read that fails yields, without raising, a sequence with exactly
\* one sentinel, which is its last element; a read that succeeds yields no
\* sentinel, so the empty sequence is yielded only by a successful read.
C15_OneSentinelLast ==
    upc = "done" =>
        LET nones == {k \in DOMAIN uout.blocks : uout.blocks[k].none}
        IN  /\ uout.readable < Len(uin) =>
                  /\ nones = {Len(uout.blocks)}
                  /\ uout.blocks # << >>
            /\ uout.readable = Len(uin) => nones = {}
            /\ uout.blocks = << >> => uout.readable = Len(uin)

\* the read raised at the third paragraph, after one block was yielded
C15_Witness ==
    /\ upc = "done"
    /\ Len(uin) >= 3
    /\ uout.readable = 2
    /\ uout.blocks = <<Block(<<"a">>), NoneBlock>>

(* ===================== clean_text on its own ========================== *)
CleanAlphabet == {"a", " ", "\n", "\t"}

\* 'a', three spaces, 'b', two newlines, 'c'
CleanExample == <<"a", " ", " ", " ", "b", "\n", "\n", "c">>

CleanInputs ==
    UNION {[1..n -> CleanAlphabet] : n \in 0..MaxTextLen} \cup {CleanExample}

InitClean ==
    /\ PipelineOff
    /\ upc = "call"
    /\ uin \in CleanInputs
    /\ uout = << >>

\* one call of clean_text(uin)
CleanCall ==
    /\ upc = "call"
    /\ uout' = clean_text(uin)
    /\ upc' = "done"
    /\ UNCHANGED <<pipeVars, uin>>

NextClean == CleanCall

SpecClean == InitClean /\ [][NextClean]_vars

WsChars == {" ", "\n", "\t"}

\* positions at which a whitespace-separated token starts
TokStarts(t) ==
    {a \in DOMAIN t : t[a] \notin WsChars /\ (a = 1 \/ t[a - 1] \in WsChars)}

\* the last position of the token that starts at a
TokEnd(t, a) ==
    CHOOSE b \in a..Len(t) :
        /\ \A k \in a..b : t[k] \notin WsChars
        /\ b = Len(t) \/ t[b + 1] \in WsChars

\* the whitespace-separated tokens of t, in order
Tokens(t) ==
    [k \in 1..Cardinality(TokStarts(t)) |->
        LET a == CHOOSE x \in TokStarts(t) :
                    Cardinality({y \in TokStarts(t) : y <= x}) = k
        IN  SubSeq(t, a, TokEnd(t, a))]

\* C16: clean_text replaces every maximal whitespace run by one space and
\* trims: the result has no leading or trailing whitespace, no two adjacent
\* whitespace characters and no whitespace other than the space, its tokens
\* are those of the input in the same order, empty or whitespace-only input
\* gives the empty string, and the example gives 'a b c'.
C16_CleanCollapsesAndTrims ==
    upc = "done" =>
        /\ Tokens(uout) = Tokens(uin)
        /\ \A k \in DOMAIN uout : uout[k] \in WsChars => uout[k] = " "
        /\ uout # << >> =>
              uout[1] \notin WsChars /\ uout[Len(uout)] \notin WsChars
        /\ \A k \in 1..(Len(uout) - 1) :
              ~(uout[k] \in WsChars /\ uout[k + 1] \in WsChars)
        /\ (\A k \in DOMAIN uin : uin[k] \in WsChars) => uout = << >>
        /\ uin = CleanExample => uout = <<"a", " ", "b", " ", "c">>

C16_Witness ==
    /\ upc = "done"
    /\ uin = CleanExample
    /\ uout = <<"a", " ", "b", " ", "c">>

(* ============ command line, configuration file and defaults =========== *)
\* an option that the command line or the file does not set (None in args)
Unset == "<unset>"

\* Config.__init__: the built-in defaults of three recognized options
ConfigDefaults ==
    [provider |-> "groq", model_name |-> "llama3-70b-8192",
     input_docx_path |-> "src/InputOutput/Input_Madhushala.docx"]

Options == DOMAIN ConfigDefaults

\* add_argument(... default=...): --provider has default "groq", the other
\* arguments have none
ArgDefaults ==
    [provider |-> "groq", model_name |-> Unset, input_docx_path |-> Unset]

\* keys a configuration file may set; "unknown_key" is not an attribute
FileKeys == Options \cup {"unknown_key"}

FileValues(k) ==
    IF k = "provider" THEN {Unset, "openai", "ollama"}
    ELSE IF k = "model_name" THEN {Unset, "file-model"}
    ELSE IF k = "input_docx_path" THEN {Unset, "file.docx"}
    ELSE {Unset, "x"}

ConfigFiles ==
    {f \in [FileKeys -> UNION {FileValues(k) : k \in FileKeys}] :
        \A k \in FileKeys : f[k] \in FileValues(k)}

\* what the user typed for each option; --provider accepts its choices only
ArgvValues(o) ==
    IF o = "provider" THEN {Unset, "groq", "openai", "google"}
    ELSE IF o = "model_name" THEN {Unset, "cli-model"}
    ELSE {Unset, "cli.docx"}

Argvs ==
    {a \in [Options -> UNION {ArgvValues(o) : o \in Options}] :
        \A o \in Options : a[o] \in ArgvValues(o)}

\* parser.parse_args(): the typed value, else the argument's default
parse_args(argv) ==
    [o \in Options |-> IF argv[o] # Unset THEN argv[o] ELSE ArgDefaults[o]]

\* Config.load_from_file: setattr for every key of the file that is an
\* attribute of the section (hasattr), other keys are passed over
load_from_file(config, file) ==
    LET known == {k \in DOMAIN file : file[k] # Unset /\ k \in DOMAIN config}
    IN  [o \in DOMAIN config |-> IF o \in known THEN file[o] ELSE config[o]]

\* main.py 90-101: if args.x: config.x = args.x
apply_overrides(config, args) ==
    [o \in DOMAIN config |-> IF args[o] # Unset THEN args[o] ELSE config[o]]

InitConfig ==
    /\ PipelineOff
    /\ upc = "parse"
    /\ uin \in [argv : Argvs, file : ConfigFiles]
    /\ uout = [args |-> << >>, config |-> << >>]

\* main.py 83: args = parser.parse_args()
ParseArgs ==
    /\ upc = "parse"
    /\ uout' = [uout EXCEPT !.args = parse_args(uin.argv)]
    /\ upc' = "load"
    /\ UNCHANGED <<pipeVars, uin>>

\* main.py 88: config = Config(args.config)
LoadConfig ==
    /\ upc = "load"
    /\ uout' = [uout EXCEPT
                  !.config = load_from_file(ConfigDefaults, uin.file)]
    /\ upc' = "override"
    /\ UNCHANGED <<pipeVars, uin>>

\* main.py 90-101: the command-line overrides
ApplyOverrides ==
    /\ upc = "override"
    /\ uout' = [uout EXCEPT
                  !.config = apply_overrides(uout.config, uout.args)]
    /\ upc' = "done"
    /\ UNCHANGED <<pipeVars, uin>>

NextConfig == ParseArgs \/ LoadConfig \/ ApplyOverrides

SpecConfig == InitConfig /\ [][NextConfig]_vars

\* C17: for every recognized option the effective value is the command-line
\* value if one was given, otherwise the file's value if the file sets the
\* key, otherwise the built-in default, and unrecognized file keys change
\* nothing; in particular the file's provider is the effective provider
\* when no --provider argument is passed.
C17_CommandLineThenFileThenDefault ==
    upc = "done" =>
        /\ DOMAIN uout.config = Options
        /\ \A o \in Options :
              uout.config[o] =
                 IF uin.argv[o] # Unset THEN uin.argv[o]
                 ELSE IF uin.file[o] # Unset THEN uin.file[o]
                 ELSE ConfigDefaults[o]

(* ============== runs started from an arbitrary Config object ========== *)
\* provider strings a Config object may hold (llm_config.provider is any
\* str): the factory's names, other spellings of them, and unknown ones
AnyProviders ==
    {"groq", "openai", "google", "ollama", "GROQ", "Groq", "OpenAI",
     "GOOGLE", "Ollama", "huggingface", "HuggingFace", ""}

AnyConfigs ==
    [provider : AnyProviders, api_key : ApiKeys,
     input_exists : BOOLEAN, sysmsg_exists : BOOLEAN,
     max_retries : 0..MaxRetriesBound, separator : Separators]

AnyDocs == UNION {[1..n -> ParaTexts] : n \in 0..MaxAnyParas}

\* config.validate(); ShAIyarProcessor(config).process() on any Config
InitAnyConfig ==
    /\ cfg \in AnyConfigs
    /\ doc \in AnyDocs
    /\ PipelineIdle
    /\ UnitOff

SpecAnyConfig == InitAnyConfig /\ [][Next]_vars

\* spellings of the four supported names, compared ignoring case
GroqNames == {"groq", "GROQ", "Groq"}
OpenAINames == {"openai", "OpenAI"}
GoogleNames == {"google", "GOOGLE"}
OllamaNames == {"ollama", "Ollama"}
SupportedNames == GroqNames \cup OpenAINames \cup GoogleNames \cup OllamaNames

\* the configuration errors the claim calls fatal
FatalConfig(c) ==
    \/ ~c.input_exists
    \/ ~c.sysmsg_exists
    \/ c.provider \in (GroqNames \cup OpenAINames \cup GoogleNames)
          /\ c.api_key = << >>
    \/ c.provider \notin SupportedNames

\* nothing of the block loop has happened
NothingProcessed ==
    /\ history = << >>
    /\ attempts = 0
    /\ sleeps = << >>
    /\ invStatus = "idle"
    /\ text_blocks = << >>
    /\ output_doc = << >>
    /\ saveCount = 0
    /\ saved = PreviousOutput
    /\ result = "none"

\* C18: with a fatal configuration error (missing input file, missing
\* system-message file, empty credential for groq, openai or google, unknown
\* provider) the run never gets past validation and construction: no
\* backend call, no write to the output, and the only exit is non-zero.
\* The ollama provider passes validation with an empty credential.
C18_FatalConfigAbortsBeforeProcessing ==
    /\ FatalConfig(cfg) =>
          /\ pc \in {"main", "construct", "exited"}
          /\ NothingProcessed
          /\ pc = "exited" => exitStatus = 1
          /\ pc # "exited" => exitStatus = -1
          /\ pc = "main" => ENABLED (MainValidateFail \/ MainValidateOk)
          /\ pc = "construct" => ENABLED ConstructFail /\ ~ENABLED ConstructOk
    /\ (/\ pc = "main"
        /\ cfg.provider \in OllamaNames
        /\ cfg.input_exists /\ cfg.sysmsg_exists) =>
          ENABLED MainValidateOk /\ ~ENABLED MainValidateFail

\* a run with an empty credential for a provider that needs one has exited
\* with status 1
C18_Witness ==
    /\ cfg.provider \in GroqNames
    /\ cfg.api_key = << >>
    /\ cfg.input_exists /\ cfg.sysmsg_exists
    /\ pc = "exited"
    /\ exitStatus = 1
    /\ NothingProcessed

\* the class the factory is claimed to return for a provider string
ExpectedClient(p) ==
    IF p \in GroqNames THEN "GroqInterface"
    ELSE IF p \in OpenAINames THEN "OpenAIInterface"
    ELSE IF p \in GoogleNames THEN "GoogleInterface"
    ELSE IF p \in OllamaNames THEN "OllamaInterface"
    ELSE "None"

\* C19: the factory returns the groq, openai, google or ollama client
\* exactly when the provider equals that name ignoring case and raises for
\* every other string; a failed construction is not retried (the counter
\* stays 0, no backoff sleep, no backend call) and ends the run with a
\* non-zero exit before anything is processed.
C19_FactoryByNameAndFatalConstruction ==
    /\ llm_interface \in {"None", ExpectedClient(cfg.provider)}
    /\ pc = "construct" =>
          (ENABLED ConstructOk <=> cfg.provider \in SupportedNames)
    /\ pc \notin {"main", "construct", "exited"} => llm_interface # "None"
    /\ (pc = "exited" /\ llm_interface = "None") =>
          /\ exitStatus = 1
          /\ retry_count = 0
          /\ NothingProcessed

\* a client was constructed for a name spelt with upper-case letters
C19_Witness ==
    /\ cfg.provider = "Ollama"
    /\ llm_interface = "OllamaInterface"
    /\ pc = "process"

(* ================= OutputWriter.append_to_docx on its own ============= *)
\* the output path: no file, a document without paragraphs, or a document
\* that already holds one paragraph
OutputFiles ==
    {[exists |-> FALSE, paras |-> << >>],
     [exists |-> TRUE, paras |-> << >>],
     [exists |-> TRUE, paras |-> PreviousOutput]}

\* content_block arguments
Contents == {<<"X">>, <<"Y">>}

\* lines 107-110: the document of an existing path, else a new document
LoadDoc(file) == IF file.exists THEN file.paras ELSE << >>

\* variant: the separator is added before every block
NeedsSeparator_Always(paras) == TRUE

\* line 113: if output_doc.paragraphs
NeedsSeparator(paras) == paras # << >>

\* lines 107-123: the paragraphs of the document that is saved
append_to_docx(file, content_block, separator) ==
    LET loaded == LoadDoc(file)
        with_sep == IF NeedsSeparator(loaded)
                    THEN Append(loaded, separator)
                    ELSE loaded
    IN  Append(with_sep, content_block)

InitAppend ==
    /\ PipelineOff
    /\ upc = "append"
    /\ uin \in [initial : OutputFiles, separator : Separators]
    /\ uout = [file |-> uin.initial, ok |-> << >>, failed |-> 0,
               ret |-> "none"]

\* a call that reaches return True: the document is saved at the path
AppendReturnsTrue ==
    /\ upc = "append"
    /\ Len(uout.ok) + uout.failed < MaxAppends
    /\ \E content_block \in Contents :
          uout' = [uout EXCEPT
                     !.file = [exists |-> TRUE,
                               paras |-> append_to_docx(uout.file,
                                            content_block, uin.separator)],
                     !.ok = Append(uout.ok, content_block),
                     !.ret = "True"]
    /\ UNCHANGED <<pipeVars, upc, uin>>

\* lines 126-128: an exception (the load, mkdir or save raised) is logged
\* and the call returns False; the stored file is as it was
AppendReturnsFalse ==
    /\ upc = "append"
    /\ Len(uout.ok) + uout.failed < MaxAppends
    /\ uout' = [uout EXCEPT !.failed = uout.failed + 1, !.ret = "False"]
    /\ UNCHANGED <<pipeVars, upc, uin>>

NextAppend == AppendReturnsTrue \/ AppendReturnsFalse

SpecAppend == InitAppend /\ [][NextAppend]_vars

\* position of the j-th successfully appended block among n paragraphs
BlockPos(n, k, j) == n - 2 * (k - j)

\* C20: append_to_docx adds the separator paragraph before the new block if
\* and only if the document already holds a paragraph, then the block, and
\* has saved the whole document when it returns True: the file holds its
\* initial paragraphs followed by the appended blocks in call order, each
\* but a first one on an empty document preceded by one separator; k
\* appends to an absent file leave 2k-1 paragraphs; identical contents are
\* both kept; a failing call returns False and adds nothing.
C20_AppendSeparatesAndSaves ==
    upc = "append" =>
        LET before == LoadDoc(uin.initial)
            now == uout.file.paras
            k == Len(uout.ok)
            n == Len(now)
        IN  /\ n = Len(before) + (IF k = 0 THEN 0
                                  ELSE IF before = << >> THEN 2 * k - 1
                                  ELSE 2 * k)
            /\ SubSeq(now, 1, Len(before)) = before
            /\ \A j \in 1..k :
                  /\ now[BlockPos(n, k, j)] = uout.ok[j]
                  /\ BlockPos(n, k, j) > 1 =>
                        now[BlockPos(n, k, j) - 1] = uin.separator
            /\ (~uin.initial.exists /\ k >= 1) => n = 2 * k - 1
            /\ uout.ret = "True" =>
                  /\ uout.file.exists
                  /\ k >= 1
                  /\ now[n] = uout.ok[k]
            /\ uout.ret = "False" => uout.failed >= 1
            /\ k = 0 => uout.file = uin.initial

\* the same content appended twice to an absent file, with a failed call
C20_Witness ==
    /\ upc = "append"
    /\ ~uin.initial.exists
    /\ uin.separator = DefaultSeparator
    /\ uout.ok = <<<<"X">>, <<"X">>>>
    /\ uout.failed = 1
    /\ uout.file.paras = <<<<"X">>, DefaultSeparator, <<"X">>>>

(* ===================== claims about the whole run ===================== *)
\* texts joined by single spaces
RECURSIVE JoinSp(_)
JoinSp(ts) ==
    IF ts = << >> THEN << >>
    ELSE IF Len(ts) = 1 THEN ts[1]
    ELSE ts[1] \o <<" ">> \o JoinSp(Tail(ts))

\* C21: every backend call of the run carries exactly two messages, the
\* system prompt and then the cleaned text of the current block; the system
\* prompt is the one loaded at construction, the same for every block; no
\* call carries text or a response of another block, and every retry sends
\* the same two messages again.
C21_TwoMessagesPerCall ==
    /\ Len(sent) = attempts
    /\ llm_interface # "None" => system_message = <<"S">>
    /\ sent # << >> => i < Len(text_blocks) /\ ~text_blocks[i + 1].none
    /\ \A k \in DOMAIN sent :
          sent[k] =
             <<[role |-> "system", content |-> <<"S">>],
               [role |-> "human",
                content |-> JoinSp(Tokens(text_blocks[i + 1].text))]>>

\* the second block, whose text differs from the first block's, is sent a
\* second time after the first block's response was saved
C21_Witness ==
    /\ pc = "invoke"
    /\ i = 1
    /\ Len(sent) = 2
    /\ text_blocks[1].text # text_blocks[2].text
    /\ history = <<Outcome(0, "Success", <<"X">>)>>

\* the invoke of the current block has returned and the pipeline has acted
\* on what it returned
InvokeReturnedAndHandled ==
    invStatus = "returned" /\ pc \in {"save", "delay", "returned", "exited"}

\* C22 as stated: every block whose invoke returns is appended, saved and
\* counted as successful, whatever text came back, the empty string included.
C22_EveryReturnedBlockIsSaved ==
    (InvokeReturnedAndHandled /\ pc # "save") =>
        /\ history[Len(history)] = Outcome(i, "Success", backendValue)
        /\ output_doc # << >>
        /\ output_doc[Len(output_doc)] = backendValue
        /\ saved = output_doc
        /\ successful_blocks = Cardinality(OutcomesOf("Success"))

\* C22 amended: a block whose invoke returns a non-empty text is appended
\* to the document; when the save completes the block is saved and counted
\* as successful, and when the save raises the run ends with False.  A block
\* whose invoke returns the empty string is neither appended nor saved nor
\* counted.
C22_NonEmptyReturnIsSaved ==
    InvokeReturnedAndHandled =>
        /\ successful_blocks = Cardinality(OutcomesOf("Success"))
        /\ saveCount = successful_blocks
        /\ IF backendValue = << >>
           THEN /\ pc = "delay"
                /\ history[Len(history)] = Outcome(i, "Empty", << >>)
                /\ output_doc = Durable
           ELSE /\ output_doc # << >>
                /\ output_doc[Len(output_doc)] = backendValue
                /\ pc = "delay" =>
                      /\ history[Len(history)] =
                            Outcome(i, "Success", backendValue)
                      /\ saved = output_doc
                /\ pc \in {"returned", "exited"} =>
                      /\ history[Len(history)] =
                            Outcome(i, "SaveFailed", << >>)
                      /\ result = "False"

\* the first block's invoke returned the empty string and nothing was
\* written; the second block's invoke returned text, which is saved
C22_Witness ==
    /\ pc = "delay"
    /\ invStatus = "returned"
    /\ history = <<Outcome(0, "Empty", << >>), Outcome(1, "Success", <<"Y">>)>>
    /\ saved = <<<<"Y">>>>
    /\ successful_blocks = 1

\* the newline-delimited lines of a text
RawLineCount(t) == Cardinality({k \in DOMAIN t : t[k] = "\n"}) + 1

\* C23: the statistics logged for a block are computed over the block as
\* extracted, before cleaning: the logged line count is the number of
\* newline-delimited lines of the raw block, m for a block of m paragraphs.
C23_LineCountOfRawBlock ==
    (analysis # << >> /\ pc \in {"invoke", "check", "save", "delay"}) =>
        analysis[1].line_count = RawLineCount(text_blocks[i + 1].text)

\* the real blocks among the first n elements of the extracted list
RealBefore(n) ==
    {k \in 0..(n - 1) : k < Len(text_blocks) /\ ~text_blocks[k + 1].none}

\* the indices for which an outcome is recorded
Recorded(h) == {h[k].index : k \in DOMAIN h}

\* C24: blocks are handled one at a time in input order: the invoke of a
\* block starts only from the loop head, once, when every earlier real block
\* has its outcome recorded (a successful one saved) and the block itself
\* has none; an outcome is recorded only for the block in flight; the loop
\* index moves only to the next element and not before the outcome of a
\* real block is recorded.
C24_OneBlockAtATimeInOrder ==
    [][/\ (invStatus' = "running" /\ invStatus # "running") =>
              /\ pc = "loop" /\ i' = i
              /\ Recorded(history) = RealBefore(i)
              /\ saveCount = Cardinality(OutcomesOf("Success"))
              /\ saveCount > 0 => saved = output_doc
       /\ cleaned_text' # cleaned_text =>
              pc = "loop" /\ Recorded(history) = RealBefore(i)
       /\ history' # history =>
              /\ Len(history') = Len(history) + 1
              /\ SubSeq(history', 1, Len(history)) = history
              /\ history'[Len(history')].index = i
              /\ i \notin Recorded(history)
       /\ i' # i =>
              /\ i' = i + 1
              /\ Recorded(history) = RealBefore(i + 1)
      ]_vars

\* the third block is in flight after the outcomes of the first two
C24_Witness ==
    /\ pc = "invoke"
    /\ i = 2
    /\ Len(history) = 2
    /\ Recorded(history) = {0, 1}

(* ============================ termination ============================= *)
LiveDocs == UNION {[1..n -> ParaTexts] : n \in 0..MaxLiveParas}

InitLive ==
    /\ cfg \in Configs
    /\ doc \in LiveDocs
    /\ PipelineIdle
    /\ UnitOff

\* the program is one thread that runs until it exits: a step that can be
\* taken is taken
SpecLive == InitLive /\ [][Next]_vars /\ WF_vars(Next)

\* C25 as stated: process() always ends in Done, reached after the outcome
\* of the last block has been recorded.
C25_ProcessAlwaysReachesDone ==
    pc = "returned" => result = "True" /\ Len(history) = total_blocks

\* C25 amended: process() always returns; every invoke makes at most
\* max_retries + 1 backend attempts and at most max_retries sleeps (with
\* max_retries = 0 the first failure is terminal, without a sleep); it
\* returns True only once every real block has its outcome recorded, and
\* otherwise returns False right after a save has raised.
C25_ProcessTerminates ==
    /\ [](/\ attempts <= cfg.max_retries + 1
          /\ Len(sleeps) <= cfg.max_retries
          /\ (invStatus = "raised" /\ cfg.max_retries = 0) =>
                attempts = 1 /\ sleeps = << >>)
    /\ [](pc = "returned" =>
             \/ /\ result = "True"
                /\ i >= Len(text_blocks)
                /\ Len(history) = total_blocks
             \/ /\ result = "False"
                /\ history # << >>
                /\ history[Len(history)] = Outcome(i, "SaveFailed", << >>))
    /\ (pc = "process") ~> (pc = "returned")

\* with max_retries = 0 the first block failed at its first call, the
\* second block was handled, and process() returned
C25_Witness ==
    /\ pc = "returned"
    /\ result = "True"
    /\ cfg.max_retries = 0
    /\ Len(history) = 2
    /\ history[1].outcome = "Failed"

(* ============== invoke on its own, two runs side by side ============== *)
\* kinds of exception a backend call may raise
ErrorKinds == {"transient", "permanent"}

\* most backend calls one invoke can make
MaxCalls == MaxRetriesBound + 1

\* a client before its invoke is called
FreshRun ==
    [retry_count |-> 0, attempts |-> 0, sleeps |-> << >>,
     status |-> "running"]

\* one backend call of invoke (lines 118-126) with handle_error (76-83):
\* ok says whether model.invoke returned, error is what it raised otherwise
invoke_call(run, ok, error, max_retries) ==
    IF ok
    THEN [run EXCEPT !.attempts = run.attempts + 1,
                     !.retry_count = ResetOnSuccess(run.retry_count),
                     !.status = "returned"]
    ELSE IF Caught(error) /\ CanRetry(run.retry_count, max_retries)
    THEN [run EXCEPT !.attempts = run.attempts + 1,
                     !.retry_count = run.retry_count + 1,
                     !.sleeps = Append(run.sleeps,
                                       Backoff(run.retry_count + 1))]
    ELSE [run EXCEPT !.attempts = run.attempts + 1,
                     !.retry_count = ResetOnExhaust(run.retry_count),
                     !.status = "raised"]

\* two backends with the same success/failure pattern per attempt and
\* error kinds of their own
InitInvoke ==
    /\ PipelineOff
    /\ upc = "invoke"
    /\ uin \in [max_retries : 0..MaxRetriesBound,
                pattern : [1..MaxCalls -> BOOLEAN],
                kindsA : [1..MaxCalls -> ErrorKinds],
                kindsB : [1..MaxCalls -> ErrorKinds]]
    /\ uout = [a |-> FreshRun, b |-> FreshRun]

\* the next backend call of the first run
CallA ==
    /\ upc = "invoke"
    /\ uout.a.status = "running"
    /\ uout' = [uout EXCEPT !.a =
                  invoke_call(uout.a, uin.pattern[uout.a.attempts + 1],
                              uin.kindsA[uout.a.attempts + 1],
                              uin.max_retries)]
    /\ UNCHANGED <<pipeVars, upc, uin>>

\* the next backend call of the second run
CallB ==
    /\ upc = "invoke"
    /\ uout.b.status = "running"
    /\ uout' = [uout EXCEPT !.b =
                  invoke_call(uout.b, uin.pattern[uout.b.attempts + 1],
                              uin.kindsB[uout.b.attempts + 1],
                              uin.max_retries)]
    /\ UNCHANGED <<pipeVars, upc, uin>>

NextInvoke == CallA \/ CallB

SpecInvoke == InitInvoke /\ [][NextInvoke]_vars

\* C26: retrying does not depend on the kind of error: two invokes against
\* backends with the same success/failure pattern and different error kinds
\* make the same number of attempts, sleep the same delays and end in the
\* same kind of outcome (and agree whenever they have made equally many
\* calls).
C26_RetryIgnoresErrorKind ==
    upc = "invoke" =>
        /\ (uout.a.status # "running" /\ uout.b.status # "running") =>
              /\ uout.a.attempts = uout.b.attempts
              /\ uout.a.sleeps = uout.b.sleeps
              /\ uout.a.status = uout.b.status
              /\ uout.a.retry_count = uout.b.retry_count
        /\ uout.a.attempts = uout.b.attempts => uout.a = uout.b

\* both runs ended in the terminal failure after two sleeps, the first with
\* transient errors only and the second with permanent errors only
C26_Witness ==
    /\ upc = "invoke"
    /\ \A k \in 1..MaxCalls :
          uin.kindsA[k] = "transient" /\ uin.kindsB[k] = "permanent"
    /\ uout.a.status = "raised"
    /\ uout.b.status = "raised"
    /\ uout.a.sleeps = <<2, 4>>

(* ========================= progress counters ========================== *)
\* the result paragraphs of a document written by this run: every paragraph
\* when the separator is empty, else every second one
ResultParagraphs(d) ==
    IF cfg.separator = << >> THEN Len(d) ELSE (Len(d) + 1) \div 2

C28_OutputHoldsThisRunOnly ==
    /\ pc \notin {"main", "construct", "process"} =>
          IsPrefix(JoinConfigured(SuccessTexts(history), cfg.separator),
                   output_doc)
    /\ saveCount = 0 => saved = PreviousOutput
    /\ saveCount > 0 =>
          /\ saved = JoinConfigured(SuccessTexts(history), cfg.separator)
          /\ \A k \in DOMAIN saved :
                \A m \in DOMAIN PreviousOutput : saved[k] # PreviousOutput[m]
    /\ (pc \in {"returned", "exited"} /\ OutcomesOf("Success") = {}) =>
          saveCount = 0 /\ saved = PreviousOutput

\* the first save of the run has replaced the earlier content
C28_Witness ==
    /\ pc = "delay"
    /\ saveCount = 1
    /\ saved = <<<<"X">>>>
    /\ PreviousOutput # << >>

(* ================== clean_text applied twice, and to blocks =========== *)
\* what is cleaned: any text, or the blocks extracted from a document
CleanTwiceInputs ==
    [kind : {"doc"}, doc : ExtractDocs, text : {<< >>}] \cup
    [kind : {"text"}, doc : {<< >>}, text : CleanInputs]

InitCleanTwice ==
    /\ PipelineOff
    /\ upc = "call"
    /\ uin \in CleanTwiceInputs
    /\ uout = [texts |-> << >>, once |-> << >>, twice |-> << >>]

\* process(), lines 119-135: the real blocks of the extracted list
ExtractTexts ==
    /\ upc = "call"
    /\ uin.kind = "doc"
    /\ \E readable \in (-1)..Len(uin.doc) :
          LET blocks == SelectSeq(read_docx_text_blocks(uin.doc, readable),
                                  LAMBDA b : ~IsSentinel(b))
          IN  uout' = [uout EXCEPT
                         !.texts = [k \in DOMAIN blocks |-> blocks[k].text]]
    /\ upc' = "clean"
    /\ UNCHANGED <<pipeVars, uin>>

\* a text handed to clean_text by any caller
TakeText ==
    /\ upc = "call"
    /\ uin.kind = "text"
    /\ uout' = [uout EXCEPT !.texts = <<uin.text>>]
    /\ upc' = "clean"
    /\ UNCHANGED <<pipeVars, uin>>

\* clean_text on each text
CleanOnce ==
    /\ upc = "clean"
    /\ uout' = [uout EXCEPT
                  !.once = [k \in DOMAIN uout.texts |->
                               clean_text(uout.texts[k])]]
    /\ upc' = "again"
    /\ UNCHANGED <<pipeVars, uin>>

\* clean_text on each result
CleanAgain ==
    /\ upc = "again"
    /\ uout' = [uout EXCEPT
                  !.twice = [k \in DOMAIN uout.once |->
                                clean_text(uout.once[k])]]
    /\ upc' = "done"
    /\ UNCHANGED <<pipeVars, uin>>

NextCleanTwice == ExtractTexts \/ TakeText \/ CleanOnce \/ CleanAgain

SpecCleanTwice == InitCleanTwice /\ [][NextCleanTwice]_vars

\* C29: clean_text is idempotent, and the cleaned text of a block yielded
\* by the extractor is never empty, so such a block never takes the
\* empty-after-cleaning branch.
C29_CleanIdempotentAndNonEmptyOnBlocks ==
    upc = "done" =>
        /\ Len(uout.twice) = Len(uout.texts)
        /\ \A k \in DOMAIN uout.texts :
              /\ uout.twice[k] = uout.once[k]
              /\ uin.kind = "doc" =>
                    uout.once[k] # << >> /\ ~IsEmptyText(uout.once[k])

\* a block of two paragraphs with inner and outer whitespace is changed by
\* the first cleaning and not by the second
C29_Witness ==
    /\ upc = "done"
    /\ uin.kind = "doc"
    /\ uout.texts = <<<<"b", " ", "\n", "a">>>>
    /\ uout.once = <<<<"b", " ", "a">>>>
    /\ uout.twice = uout.once

(* ============ OutputWriter.write_to_docx and write_to_text ============ *)
\* content_blocks entries: the empty string and two texts
WriteContents == {<< >>, <<"X">>, <<"Y">>}

ContentLists == UNION {[1..n -> WriteContents] : n \in 0..MaxWriteBlocks}

\* one add_paragraph or f.write, tagged with what it wrote
Piece(kind, text) == [kind |-> kind, text |-> text]

\* the loop of both writers over content_blocks[k..] (lines 38-45, 78-84):
\* a truthy block is written, followed by the separator unless its index is
\* the last index of the list
RECURSIVE WriteLoop(_, _, _)
WriteLoop(content_blocks, k, separator) ==
    IF k > Len(content_blocks) THEN << >>
    ELSE (IF content_blocks[k] # << >>
          THEN <<Piece("block", content_blocks[k])>> \o
               (IF k - 1 < Len(content_blocks) - 1
                THEN <<Piece("separator", separator)>>
                ELSE << >>)
          ELSE << >>)
         \o WriteLoop(content_blocks, k + 1, separator)

InitWrite ==
    /\ PipelineOff
    /\ upc = "call"
    /\ uin \in [content_blocks : ContentLists, separator : Separators,
                target : {"docx", "text"}]
    /\ uout = [written |-> << >>, ret |-> "none"]

\* write_to_docx returns True: the paragraphs of the saved document
WriteToDocx ==
    /\ upc = "call"
    /\ uin.target = "docx"
    /\ uout' = [written |-> WriteLoop(uin.content_blocks, 1, uin.separator),
                ret |-> "True"]
    /\ upc' = "done"
    /\ UNCHANGED <<pipeVars, uin>>

\* write_to_text returns True: the writes made to the file, in order
WriteToText ==
    /\ upc = "call"
    /\ uin.target = "text"
    /\ uout' = [written |-> WriteLoop(uin.content_blocks, 1, uin.separator),
                ret |-> "True"]
    /\ upc' = "done"
    /\ UNCHANGED <<pipeVars, uin>>

\* lines 55-57 and 88-90: an exception is logged and False is returned
WriteFails ==
    /\ upc = "call"
    /\ uout' = [uout EXCEPT !.ret = "False"]
    /\ upc' = "done"
    /\ UNCHANGED <<pipeVars, uin>>

NextWrite == WriteToDocx \/ WriteToText \/ WriteFails

SpecWrite == InitWrite /\ [][NextWrite]_vars

\* C30: the batch writers emit a separator only between two written blocks:
\* the output never starts or ends with a separator, and the number of
\* separators is the number of non-empty blocks minus one (0 when none).
C30_SeparatorsOnlyBetweenBlocks ==
    (upc = "done" /\ uout.ret = "True") =>
        LET w == uout.written
            nonEmpty == Cardinality({k \in DOMAIN uin.content_blocks :
                                        uin.content_blocks[k] # << >>})
            seps == Cardinality({k \in DOMAIN w : w[k].kind = "separator"})
        IN  /\ w # << >> =>
                  w[1].kind = "block" /\ w[Len(w)].kind = "block"
            /\ seps = IF nonEmpty = 0 THEN 0 ELSE nonEmpty - 1

====
